---- MODULE Spec2Model ----
(***************************************************************************)
(* OptimizedSQLiteManager (memory_mcp_server/optimized_sqlite_manager.py): *)
(* a knowledge-graph store over one lazily opened sqlite3 connection.      *)
(*                                                                         *)
(* Text values are sequences of one-character strings, so that join,       *)
(* split and LIKE are computed character by character.                     *)
(*                                                                         *)
(* The database is two tables.  `disk` is what has been committed to the   *)
(* file, `view` is what statements on self._conn read and write (the       *)
(* committed rows plus the writes of the open transaction).  Python's      *)
(* sqlite3 opens a transaction implicitly before INSERT/UPDATE/DELETE and  *)
(* keeps it open until commit(), rollback() or close().                    *)
(***************************************************************************)
EXTENDS Integers, Sequences, FiniteSets, TLC

\* ------------------------------------------------------------------ bounds
MaxBatch == 2      \* longest list passed to an operation
MaxObs == 2        \* most observations add_observations lets an entity reach

\* ------------------------------------------------------------------ inputs
Names == {<<"a">>, <<"B">>}

EntityInputs ==
    { [name |-> <<"a">>, entityType |-> <<"t">>, observations |-> <<<<"x">>, <<"y">>>>],
      [name |-> <<"a">>, entityType |-> <<"u">>, observations |-> <<>>],
      [name |-> <<"B">>, entityType |-> <<"t">>, observations |-> << <<>> >>] }

RelationInputs ==
    { [from |-> <<"a">>, to |-> <<"B">>, relationType |-> <<"a">>],
      [from |-> <<"a">>, to |-> <<"a">>, relationType |-> <<"r">>],
      [from |-> <<"B">>, to |-> <<"a">>, relationType |-> <<"r">>] }

\* triples offered to delete_relations: also one that is never created
RelationDeletions ==
    RelationInputs \cup { [from |-> <<"a">>, to |-> <<"B">>, relationType |-> <<"r">>] }

ObservationInputs ==
    { [entityName |-> n, contents |-> c] : n \in Names, c \in { <<<<"y">>>> } }
        \cup { [entityName |-> <<"B">>, contents |-> << <<>> >>] }

DeletionInputs ==
    { [entityName |-> n, observations |-> o] : n \in Names, o \in { <<<<"y">>>> } }

Queries == { <<>>, <<"a">>, <<"b">>, <<"y">>, <<"_">> }

SeqsUpTo(S, n) == UNION { [1..k -> S] : k \in 0..n }

Range(s) == { s[i] : i \in 1..Len(s) }

\* ------------------------------------------------------------- text values
\* ','.join(list)
RECURSIVE Join(_)
Join(list) ==
    IF list = <<>> THEN <<>>
    ELSE IF Len(list) = 1 THEN Head(list)
    ELSE Head(list) \o <<",">> \o Join(Tail(list))

\* text.split(','): always at least one piece
RECURSIVE Split(_, _)
Split(text, piece) ==
    IF text = <<>> THEN <<piece>>
    ELSE IF Head(text) = "," THEN <<piece>> \o Split(Tail(text), <<>>)
    ELSE Split(Tail(text), Append(piece, Head(text)))

\* row['observations'].split(',') if row['observations'] else []
Observations(field) == IF field # <<>> THEN Split(field, <<>>) ELSE <<>>

\* SQLite folds ASCII letters for LIKE
Lower(c) ==
    CASE c = "A" -> "a"
      [] c = "B" -> "b"
      [] OTHER -> c

\* text LIKE pattern: % is any run of characters, _ is any one character
RECURSIVE Like(_, _)
Like(text, pattern) ==
    IF pattern = <<>> THEN text = <<>>
    ELSE IF Head(pattern) = "%"
         THEN Like(text, Tail(pattern)) \/ (text # <<>> /\ Like(Tail(text), pattern))
    ELSE /\ text # <<>>
         /\ (Head(pattern) = "_" \/ Lower(Head(pattern)) = Lower(Head(text)))
         /\ Like(Tail(text), Tail(pattern))

\* f"%{query}%"
search_pattern(query) == <<"%">> \o query \o <<"%">>

\* ------------------------------------------------------------------- state
VARIABLES
    conn,            \* self._conn: "None" or "open"
    schema,          \* the two tables exist in the database file
    disk,            \* committed rows: [entities, relations]
    view,            \* rows as seen through self._conn (committed + pending)
    in_transaction,  \* self._conn has an open, uncommitted transaction
    last             \* the latest call: op, arg, err, ret; pre, durable, conn: view, disk, conn before it

vars == <<conn, schema, disk, view, in_transaction, last>>

EmptyTables == [entities |-> {}, relations |-> {}]

NoError == [kind |-> "None", name |-> <<>>]
Error(kind, name) == [kind |-> kind, name |-> name]

Call(op, arg, err, ret) ==
    [op |-> op, arg |-> arg, err |-> err, ret |-> ret, pre |-> view, durable |-> disk,
     conn |-> conn]

\* no call is recorded: none was made yet, or the latest one has been returned
NoCall ==
    [op |-> "None", arg |-> <<>>, err |-> NoError, ret |-> "None",
     pre |-> EmptyTables, durable |-> EmptyTables, conn |-> "None"]

\* ---------------------------------------------------------- SQL statements
\* SELECT ... FROM entities WHERE name = ?
SelectEntity(st, name) == { row \in st.entities : row.name = name }

\* name TEXT PRIMARY KEY: sqlite3.IntegrityError on a second row with the name
IntegrityError(st, row) == \E other \in st.entities : other.name = row.name

\* INSERT INTO entities (name, entity_type, observations) VALUES (?, ?, ?)
InsertEntity(st, row) == [st EXCEPT !.entities = @ \cup {row}]

\* UPDATE entities SET observations = ? WHERE name = ?
UpdateObservations(st, field, name) ==
    [st EXCEPT !.entities =
        { IF row.name = name THEN [row EXCEPT !.observations = field] ELSE row : row \in @ }]

\* mutant of DeleteEntity: the WHERE clause is left out
DeleteEntity_unconditional(st, name) == [st EXCEPT !.entities = {}]

\* DELETE FROM entities WHERE name = ?
DeleteEntity(st, name) == [st EXCEPT !.entities = { row \in @ : row.name # name }]

\* mutant of InsertRelationRowcount: every relation of the batch is reported
InsertRelationRowcount_always(st, row) == Cardinality({row})

\* cursor.rowcount of INSERT INTO relations ... ON CONFLICT DO NOTHING
InsertRelationRowcount(st, row) == IF row \in st.relations THEN 0 ELSE 1

\* INSERT INTO relations (...) VALUES (?, ?, ?) ON CONFLICT DO NOTHING
InsertRelation(st, row) == [st EXCEPT !.relations = @ \cup {row}]

\* mutant of DeleteRelationsOf: only the outgoing relations are deleted
DeleteRelationsOf_from_only(st, name) ==
    [st EXCEPT !.relations = { row \in @ : ~(row.from_entity = name) }]

\* DELETE FROM relations WHERE from_entity = ? OR to_entity = ?
DeleteRelationsOf(st, name) ==
    [st EXCEPT !.relations = { row \in @ : ~(row.from_entity = name \/ row.to_entity = name) }]

\* mutant of DeleteRelation: relation_type is not compared
DeleteRelation_any_type(st, from_, to, relationType) ==
    [st EXCEPT !.relations =
        { row \in @ : ~(row.from_entity = from_ /\ row.to_entity = to) }]

\* DELETE FROM relations WHERE from_entity = ? AND to_entity = ? AND relation_type = ?
DeleteRelation(st, from_, to, relationType) ==
    [st EXCEPT !.relations =
        { row \in @ : ~(row.from_entity = from_ /\ row.to_entity = to
                        /\ row.relation_type = relationType) }]

\* value IN (?, ?, ...) bound to the items of a list
In(value, list) == \E i \in 1..Len(list) : list[i] = value

\* Entity(name=row['name'], entityType=row['entity_type'], observations=...).to_dict()
EntityDict(row) ==
    [name |-> row.name, entityType |-> row.entity_type,
     observations |-> Observations(row.observations)]

\* Relation(from_=row['from_entity'], to=row['to_entity'], ...).to_dict()
RelationDict(row) ==
    [from |-> row.from_entity, to |-> row.to_entity, relationType |-> row.relation_type]

\* the row a Relation is inserted as
RelationRow(relation) ==
    [from_entity |-> relation.from, to_entity |-> relation.to,
     relation_type |-> relation.relationType]

\* -------------------------------------------------------------- transactions
\* conn.commit(): the pending writes become durable
commit(st) ==
    /\ disk' = st
    /\ view' = st
    /\ in_transaction' = FALSE

\* mutant of rollback: the except branch re-raises without conn.rollback()
rollback_missing(st) ==
    /\ view' = st
    /\ disk' = disk
    /\ in_transaction' = TRUE

\* conn.rollback(): the pending writes are dropped
rollback(st) ==
    /\ view' = disk
    /\ disk' = disk
    /\ in_transaction' = FALSE

\* an exception leaves the handler with neither commit nor rollback
propagate(st, wrote) ==
    /\ view' = st
    /\ disk' = disk
    /\ in_transaction' = (in_transaction \/ wrote)

\* the first statement of a handler when the tables were never created
OperationalError == Error("OperationalError", <<>>)

\* ----------------------------------------------------------------- handlers
\* the for loop of create_entities over the rows of `st`
RECURSIVE create_entities_loop(_, _, _)
create_entities_loop(st, entities, created_entities) ==
    IF entities = <<>> THEN [st |-> st, err |-> NoError, ret |-> created_entities]
    ELSE LET entity == Head(entities)
             row == [name |-> entity.name, entity_type |-> entity.entityType,
                     observations |-> Join(entity.observations)]
         IN  IF IntegrityError(st, row)
             THEN [st |-> st, err |-> Error("EntityAlreadyExistsError", entity.name),
                   ret |-> "None"]
             ELSE create_entities_loop(InsertEntity(st, row), Tail(entities),
                                       Append(created_entities, entity))

create_entities(entities) ==
    /\ last = NoCall
    /\ conn' = "open"
    /\ schema' = schema
    /\ IF entities # <<>> /\ ~schema
       THEN /\ last' = Call("create_entities", entities, OperationalError, "None")
            /\ propagate(view, FALSE)
       ELSE LET r == create_entities_loop(view, entities, <<>>)
            IN  /\ last' = Call("create_entities", entities, r.err, r.ret)
                /\ IF r.err = NoError THEN commit(r.st) ELSE rollback(r.st)

\* the for loop of create_relations
RECURSIVE create_relations_loop(_, _, _)
create_relations_loop(st, relations_data, created_relations) ==
    IF relations_data = <<>> THEN [st |-> st, err |-> NoError, ret |-> created_relations]
    ELSE LET relation == Head(relations_data)
             row == RelationRow(relation)
         IN  IF SelectEntity(st, relation.from) = {}
             THEN [st |-> st, err |-> Error("EntityNotFoundError", relation.from),
                   ret |-> "None"]
             ELSE IF SelectEntity(st, relation.to) = {}
             THEN [st |-> st, err |-> Error("EntityNotFoundError", relation.to),
                   ret |-> "None"]
             ELSE create_relations_loop(
                      InsertRelation(st, row), Tail(relations_data),
                      IF InsertRelationRowcount(st, row) > 0
                      THEN Append(created_relations, relation)
                      ELSE created_relations)

create_relations(relations_data) ==
    /\ last = NoCall
    /\ conn' = "open"
    /\ schema' = schema
    /\ IF relations_data # <<>> /\ ~schema
       THEN /\ last' = Call("create_relations", relations_data, OperationalError, "None")
            /\ rollback(view)
       ELSE LET r == create_relations_loop(view, relations_data, <<>>)
            IN  /\ last' = Call("create_relations", relations_data, r.err, r.ret)
                /\ IF r.err = NoError THEN commit(r.st) ELSE rollback(r.st)

\* the two SELECT * of read_graph
ReadGraph(st) ==
    [entities |-> { EntityDict(row) : row \in st.entities },
     relations |-> { RelationDict(row) : row \in st.relations }]

read_graph ==
    /\ last = NoCall
    /\ conn' = "open"
    /\ schema' = schema
    /\ IF ~schema
       THEN last' = Call("read_graph", <<>>, OperationalError, "None")
       ELSE last' = Call("read_graph", <<>>, NoError, ReadGraph(view))
    /\ propagate(view, FALSE)

\* added_observations[entity_name] = new_contents
Put(mapping, key, value) ==
    [k \in DOMAIN mapping \cup {key} |-> IF k = key THEN value ELSE mapping[k]]

\* the for loop of add_observations; `wrote`: an UPDATE has been executed
RECURSIVE add_observations_loop(_, _, _, _)
add_observations_loop(st, observations, added_observations, wrote) ==
    IF observations = <<>>
    THEN [st |-> st, err |-> NoError, ret |-> added_observations, wrote |-> wrote]
    ELSE LET obs == Head(observations)
             entity_name == obs.entityName
             new_contents == obs.contents
             result == SelectEntity(st, entity_name)
         IN  IF result = {}
             THEN [st |-> st, err |-> Error("EntityNotFoundError", entity_name),
                   ret |-> "None", wrote |-> wrote]
             ELSE LET current_obs ==
                          Observations((CHOOSE row \in result : TRUE).observations)
                              \o new_contents
                  IN  add_observations_loop(
                          UpdateObservations(st, Join(current_obs), entity_name),
                          Tail(observations),
                          Put(added_observations, entity_name, new_contents),
                          TRUE)

\* no entity holds more than MaxObs observations
WithinMaxObs(st) ==
    \A row \in st.entities : Len(Observations(row.observations)) <= MaxObs

add_observations(observations) ==
    /\ last = NoCall
    /\ conn' = "open"
    /\ schema' = schema
    /\ IF observations # <<>> /\ ~schema
       THEN /\ last' = Call("add_observations", observations, OperationalError, "None")
            /\ propagate(view, FALSE)
       ELSE LET r == add_observations_loop(view, observations, <<>>, FALSE)
            IN  /\ WithinMaxObs(r.st)
                /\ last' = Call("add_observations", observations, r.err, r.ret)
                /\ IF r.err = NoError THEN commit(r.st) ELSE propagate(r.st, r.wrote)

\* mutant of delete_entities_loop: the loop ends after its first name
RECURSIVE delete_entities_loop_first_only(_, _)
delete_entities_loop_first_only(st, entityNames) ==
    IF entityNames = <<>> THEN st
    ELSE [entities |-> { row \in st.entities : row.name # Head(entityNames) },
          relations |-> { row \in st.relations :
                            ~(row.from_entity = Head(entityNames)
                              \/ row.to_entity = Head(entityNames)) }]

\* the for loop of delete_entities
RECURSIVE delete_entities_loop(_, _)
delete_entities_loop(st, entityNames) ==
    IF entityNames = <<>> THEN st
    ELSE delete_entities_loop(
             DeleteEntity(DeleteRelationsOf(st, Head(entityNames)), Head(entityNames)),
             Tail(entityNames))

delete_entities(entityNames) ==
    /\ last = NoCall
    /\ conn' = "open"
    /\ schema' = schema
    /\ IF entityNames # <<>> /\ ~schema
       THEN /\ last' = Call("delete_entities", entityNames, OperationalError, "None")
            /\ propagate(view, FALSE)
       ELSE /\ last' = Call("delete_entities", entityNames, NoError, "None")
            /\ commit(delete_entities_loop(view, entityNames))

\* [obs for obs in current_obs if obs not in to_delete]
RECURSIVE Remaining(_, _)
Remaining(current_obs, to_delete) ==
    IF current_obs = <<>> THEN <<>>
    ELSE IF Head(current_obs) \in to_delete THEN Remaining(Tail(current_obs), to_delete)
    ELSE <<Head(current_obs)>> \o Remaining(Tail(current_obs), to_delete)

\* the for loop of delete_observations
RECURSIVE delete_observations_loop(_, _)
delete_observations_loop(st, deletions) ==
    IF deletions = <<>> THEN st
    ELSE LET deletion == Head(deletions)
             entity_name == deletion.entityName
             to_delete == Range(deletion.observations)
             result == SelectEntity(st, entity_name)
         IN  IF result # {}
             THEN LET current_obs ==
                          Observations((CHOOSE row \in result : TRUE).observations)
                      updated_obs == Remaining(current_obs, to_delete)
                  IN  delete_observations_loop(
                          UpdateObservations(st, Join(updated_obs), entity_name),
                          Tail(deletions))
             ELSE delete_observations_loop(st, Tail(deletions))

delete_observations(deletions) ==
    /\ last = NoCall
    /\ conn' = "open"
    /\ schema' = schema
    /\ IF deletions # <<>> /\ ~schema
       THEN /\ last' = Call("delete_observations", deletions, OperationalError, "None")
            /\ propagate(view, FALSE)
       ELSE /\ last' = Call("delete_observations", deletions, NoError, "None")
            /\ commit(delete_observations_loop(view, deletions))

\* the for loop of delete_relations
RECURSIVE delete_relations_loop(_, _)
delete_relations_loop(st, relations) ==
    IF relations = <<>> THEN st
    ELSE LET relation_obj == Head(relations)
         IN  delete_relations_loop(
                 DeleteRelation(st, relation_obj.from, relation_obj.to,
                                relation_obj.relationType),
                 Tail(relations))

delete_relations(relations) ==
    /\ last = NoCall
    /\ conn' = "open"
    /\ schema' = schema
    /\ IF relations # <<>> /\ ~schema
       THEN /\ last' = Call("delete_relations", relations, OperationalError, "None")
            /\ propagate(view, FALSE)
       ELSE /\ last' = Call("delete_relations", relations, NoError, "None")
            /\ commit(delete_relations_loop(view, relations))

\* SELECT * FROM entities WHERE name IN (names)
OpenEntities(st, names) == { row \in st.entities : In(row.name, names) }

\* mutant of OpenRelations: OR in place of AND
OpenRelations_either(st, names) ==
    { row \in st.relations : In(row.from_entity, names) \/ In(row.to_entity, names) }

\* SELECT * FROM relations WHERE from_entity IN (names) AND to_entity IN (names)
OpenRelations(st, names) ==
    { row \in st.relations : In(row.from_entity, names) /\ In(row.to_entity, names) }

OpenNodes(st, names) ==
    [entities |-> { EntityDict(row) : row \in OpenEntities(st, names) },
     relations |-> { RelationDict(row) : row \in OpenRelations(st, names) }]

open_nodes(names) ==
    /\ last = NoCall
    /\ conn' = "open"
    /\ schema' = schema
    /\ IF ~schema
       THEN last' = Call("open_nodes", names, OperationalError, "None")
       ELSE last' = Call("open_nodes", names, NoError, OpenNodes(view, names))
    /\ propagate(view, FALSE)

\* SELECT * FROM entities WHERE name LIKE ? OR entity_type LIKE ? OR observations LIKE ?
SearchEntities(st, query) ==
    { row \in st.entities :
        \/ Like(row.name, search_pattern(query))
        \/ Like(row.entity_type, search_pattern(query))
        \/ Like(row.observations, search_pattern(query)) }

\* mutant of SearchRelations: the WHERE clause is left out when no name matched
SearchRelations_empty_is_all(st, entity_names) ==
    IF entity_names = {} THEN st.relations
    ELSE { row \in st.relations :
             row.from_entity \in entity_names /\ row.to_entity \in entity_names }

\* mutant of SearchRelations: OR in place of AND
SearchRelations_either(st, entity_names) ==
    { row \in st.relations :
        row.from_entity \in entity_names \/ row.to_entity \in entity_names }

\* SELECT * FROM relations
\*  WHERE from_entity IN (SELECT name FROM entities WHERE name IN (entity_names))
\*    AND to_entity   IN (SELECT name FROM entities WHERE name IN (entity_names))
SearchRelations(st, entity_names) ==
    LET named == { row.name : row \in { e \in st.entities : e.name \in entity_names } }
    IN  { row \in st.relations : row.from_entity \in named /\ row.to_entity \in named }

SearchNodes(st, query) ==
    LET rows == SearchEntities(st, query)
        entity_names == { EntityDict(row).name : row \in rows }
    IN  [entities |-> { EntityDict(row) : row \in rows },
         relations |-> { RelationDict(row) : row \in SearchRelations(st, entity_names) }]

\* mutant of search_nodes: the query is not validated
search_nodes_unvalidated(query) ==
    /\ last = NoCall
    /\ schema' = schema
    /\ conn' = "open"
    /\ IF ~schema
       THEN last' = Call("search_nodes", query, OperationalError, "None")
       ELSE last' = Call("search_nodes", query, NoError, SearchNodes(view, query))
    /\ propagate(view, FALSE)

search_nodes(query) ==
    /\ last = NoCall
    /\ schema' = schema
    /\ IF query = <<>>
       THEN /\ conn' = conn
            /\ last' = Call("search_nodes", query, Error("ValueError", <<>>), "None")
       ELSE /\ conn' = "open"
            /\ IF ~schema
               THEN last' = Call("search_nodes", query, OperationalError, "None")
               ELSE last' = Call("search_nodes", query, NoError, SearchNodes(view, query))
    /\ propagate(view, FALSE)

\* CREATE TABLE / CREATE INDEX IF NOT EXISTS, then conn.commit()
initialize ==
    /\ last = NoCall
    /\ conn' = "open"
    /\ schema' = TRUE
    /\ last' = Call("initialize", <<>>, NoError, "None")
    /\ commit(view)

\* self._conn.close() drops the writes of an open transaction
cleanup ==
    /\ last = NoCall
    /\ schema' = schema
    /\ last' = Call("cleanup", <<>>, NoError, "None")
    /\ IF conn = "open"
       THEN /\ conn' = "None"
            /\ rollback(view)
       ELSE /\ conn' = conn
            /\ propagate(view, FALSE)

\* ------------------------------------------------------------ specification
\* __init__: no connection yet.  A database file left by an earlier process is
\* a `disk` reached through cleanup.
Init ==
    /\ conn = "None"
    /\ schema = FALSE
    /\ disk = EmptyTables
    /\ view = EmptyTables
    /\ in_transaction = FALSE
    /\ last = NoCall

\* the awaited call hands its result or exception to its caller; the manager
\* keeps nothing of it, and the caller issues its next call afterwards
Return ==
    /\ last # NoCall
    /\ last' = NoCall
    /\ UNCHANGED <<conn, schema, disk, view, in_transaction>>

\* the calls a caller can make, one at a time
Next ==
    \/ initialize
    \/ cleanup
    \/ \E entities \in SeqsUpTo(EntityInputs, MaxBatch) : create_entities(entities)
    \/ \E relations_data \in SeqsUpTo(RelationInputs, MaxBatch) : create_relations(relations_data)
    \/ read_graph
    \/ \E observations \in SeqsUpTo(ObservationInputs, MaxBatch) : add_observations(observations)
    \/ \E entityNames \in SeqsUpTo(Names, MaxBatch) : delete_entities(entityNames)
    \/ \E deletions \in SeqsUpTo(DeletionInputs, MaxBatch) : delete_observations(deletions)
    \/ \E relations \in SeqsUpTo(RelationDeletions, MaxBatch) : delete_relations(relations)
    \/ \E names \in SeqsUpTo(Names, MaxBatch) : open_nodes(names)
    \/ \E query \in Queries : search_nodes(query)
    \/ Return

Spec == Init /\ [][Next]_vars

\* ------------------------------------------------------------------ claims
\* `last.pre` is the view the latest call started from, `view` the one it left.
Called(op) == schema /\ last.op = op /\ last.err # OperationalError

Succeeded(op) == Called(op) /\ last.err = NoError

NamesOf(st) == { row.name : row \in st.entities }

\* <<name>> for the first entity of the batch whose name is taken, else <<>>
RECURSIVE FirstCollision(_, _)
FirstCollision(entities, taken) ==
    IF entities = <<>> THEN <<>>
    ELSE IF Head(entities).name \in taken THEN <<Head(entities).name>>
    ELSE FirstCollision(Tail(entities), taken \cup {Head(entities).name})

\* <<name>> for the first endpoint (from before to) that names no entity, else <<>>
RECURSIVE FirstMissing(_, _)
FirstMissing(relations, existing) ==
    IF relations = <<>> THEN <<>>
    ELSE IF Head(relations).from \notin existing THEN <<Head(relations).from>>
    ELSE IF Head(relations).to \notin existing THEN <<Head(relations).to>>
    ELSE FirstMissing(Tail(relations), existing)

\* C1: a create_entities whose batch collides on a name (with the store or with
\* an earlier item) fails with already-exists naming the first colliding entity,
\* stores none of the batch, and leaves the rows of every name of the batch as
\* they were before the call (one row, same entityType, same observations).
C1_CreateEntitiesAllOrNothing ==
    (Called("create_entities") /\ FirstCollision(last.arg, NamesOf(last.pre)) # <<>>) =>
        /\ last.err = Error("EntityAlreadyExistsError",
                            FirstCollision(last.arg, NamesOf(last.pre))[1])
        /\ \A i \in 1..Len(last.arg) :
               SelectEntity(view, last.arg[i].name) = SelectEntity(last.pre, last.arg[i].name)

\* C2: a create_relations whose batch has a missing endpoint fails with
\* not-found naming the first missing endpoint (from before to, in input order)
\* and leaves the relation set as it was before the call.
C2_CreateRelationsAllOrNothing ==
    (Called("create_relations") /\ FirstMissing(last.arg, NamesOf(last.pre)) # <<>>) =>
        /\ last.err = Error("EntityNotFoundError",
                            FirstMissing(last.arg, NamesOf(last.pre))[1])
        /\ view.relations = last.pre.relations

C2_Witness ==
    /\ Called("create_relations")
    /\ last.err.kind = "EntityNotFoundError"
    /\ Len(last.arg) = 2
    /\ last.arg[1].from \in NamesOf(last.pre)
    /\ last.arg[1].to \in NamesOf(last.pre)
    /\ RelationRow(last.arg[1]) \notin last.pre.relations
    /\ last.err.name = last.arg[2].to

\* C3: an add_observations naming an unknown entity fails with not-found naming
\* it, and read_graph right after returns what it returned before the call.
C3_AddObservationsAllOrNothing ==
    (Called("add_observations")
        /\ \E i \in 1..Len(last.arg) : last.arg[i].entityName \notin NamesOf(last.pre)) =>
        /\ last.err.kind = "EntityNotFoundError"
        /\ last.err.name \notin NamesOf(last.pre)
        /\ ReadGraph(view) = ReadGraph(last.pre)

\* C4: every relation, as seen through the connection and as committed, has
\* both endpoints naming an existing entity.
ReferentialIntegrity(st) ==
    \A row \in st.relations :
        row.from_entity \in NamesOf(st) /\ row.to_entity \in NamesOf(st)

C4_ReferentialIntegrity == ReferentialIntegrity(view) /\ ReferentialIntegrity(disk)

C4_Witness ==
    /\ Called("delete_entities")
    /\ Len(last.arg) = 1
    /\ \E row \in last.pre.relations : row.to_entity = last.arg[1]
    /\ view.entities # {}

\* C5: after delete_entities(names) no entity and no relation endpoint bears a
\* name of names; the other entities, and the relations with neither endpoint in
\* names, are unchanged.
C5_DeleteEntitiesCascade ==
    Called("delete_entities") =>
        LET names == Range(last.arg)
        IN  /\ \A n \in names : SelectEntity(view, n) = {}
            /\ \A row \in view.relations :
                   row.from_entity \notin names /\ row.to_entity \notin names
            /\ view.entities = { row \in last.pre.entities : row.name \notin names }
            /\ view.relations = { row \in last.pre.relations :
                                    row.from_entity \notin names /\ row.to_entity \notin names }

C5_Witness ==
    /\ Called("delete_entities")
    /\ Len(last.arg) = 2
    /\ last.arg[1] # last.arg[2]
    /\ \E row \in last.pre.relations : row.to_entity = last.arg[2]
    /\ Range(last.arg) \subseteq NamesOf(last.pre)

\* the relations of the batch that are not in `existing`, first occurrences only
RECURSIVE NewlyInserted(_, _)
NewlyInserted(relations, existing) ==
    IF relations = <<>> THEN <<>>
    ELSE IF RelationRow(Head(relations)) \in existing
         THEN NewlyInserted(Tail(relations), existing)
    ELSE <<Head(relations)>>
             \o NewlyInserted(Tail(relations), existing \cup {RelationRow(Head(relations))})

\* C6: a successful create_relations adds the batch to the relation set and
\* returns exactly its newly inserted relations; a batch of relations that all
\* exist already changes nothing and returns the empty list.
C6_CreateRelationsIdempotent ==
    Succeeded("create_relations") =>
        LET batch == { RelationRow(last.arg[i]) : i \in 1..Len(last.arg) }
        IN  /\ last.ret = NewlyInserted(last.arg, last.pre.relations)
            /\ view.relations = last.pre.relations \cup batch
            /\ batch \subseteq last.pre.relations =>
                   (last.ret = <<>> /\ view.relations = last.pre.relations)

C6_Witness ==
    /\ Succeeded("create_relations")
    /\ Len(last.arg) = 2
    /\ \A i \in 1..2 : RelationRow(last.arg[i]) \in last.pre.relations
    /\ last.ret = <<>>

\* C7: a search_nodes with a non-empty query that returns no entity returns no
\* relation, whatever relations the store holds.
C7_SearchNoMatchNoRelations ==
    (Succeeded("search_nodes") /\ last.arg # <<>> /\ last.ret.entities = {}) =>
        last.ret.relations = {}

C7_Witness ==
    /\ Succeeded("search_nodes")
    /\ last.ret.entities = {}
    /\ view.relations # {}

\* C8: open_nodes(names) returns the entities whose name is in names and the
\* relations whose from and to are both in names; nothing for an empty list.
C8_OpenNodesExact ==
    Succeeded("open_nodes") =>
        LET names == Range(last.arg)
        IN  /\ last.ret.entities =
                   { EntityDict(row) : row \in { e \in view.entities : e.name \in names } }
            /\ last.ret.relations =
                   { RelationDict(row) :
                       row \in { r \in view.relations :
                                   r.from_entity \in names /\ r.to_entity \in names } }
            /\ last.arg = <<>> => (last.ret.entities = {} /\ last.ret.relations = {})

C8_Witness ==
    /\ Succeeded("open_nodes")
    /\ Len(last.arg) = 1
    /\ last.ret.entities # {}
    /\ \E row \in view.relations : row.from_entity = last.arg[1] /\ row.to_entity # last.arg[1]
    /\ last.ret.relations = {}

\* C9: the relations search_nodes returns are the stored relations whose from
\* and to are both names of entities returned by the same call.
C9_SearchRelationsBothEndpoints ==
    Succeeded("search_nodes") =>
        LET matched == { e.name : e \in last.ret.entities }
        IN  last.ret.relations =
                { RelationDict(row) :
                    row \in { r \in view.relations :
                                r.from_entity \in matched /\ r.to_entity \in matched } }

C9_Witness ==
    /\ Succeeded("search_nodes")
    /\ Cardinality(last.ret.entities) = 1
    /\ \E row \in view.relations :
           /\ row.from_entity \in { e.name : e \in last.ret.entities }
           /\ Like(row.relation_type, search_pattern(last.arg))
    /\ last.ret.relations = {}

NoDelimiter(text) == \A i \in 1..Len(text) : text[i] # ","

\* C10: every entity a successful create_entities stores with delimiter-free
\* observations is read back by read_graph with the same observation sequence.
C10_ObservationRoundTrip ==
    Succeeded("create_entities") =>
        \A i \in 1..Len(last.arg) :
            (\A k \in 1..Len(last.arg[i].observations) :
                 NoDelimiter(last.arg[i].observations[k])) =>
                \E e \in ReadGraph(view).entities :
                    /\ e.name = last.arg[i].name
                    /\ e.observations = last.arg[i].observations

\* the contents of the items of the batch that name `name`, in batch order
RECURSIVE Appended(_, _)
Appended(observations, name) ==
    IF observations = <<>> THEN <<>>
    ELSE (IF Head(observations).entityName = name THEN Head(observations).contents ELSE <<>>)
             \o Appended(Tail(observations), name)

\* C11: after a successful add_observations every entity reads back with its
\* previous observations followed by the contents of the items naming it, in
\* batch order, duplicates kept; entityType, the other entities and the
\* relations are unchanged.
C11_AddObservationsAppends ==
    Succeeded("add_observations") =>
        /\ { e.name : e \in ReadGraph(view).entities }
               = { e.name : e \in ReadGraph(last.pre).entities }
        /\ \A before \in ReadGraph(last.pre).entities :
               \E after \in ReadGraph(view).entities :
                   /\ after.name = before.name
                   /\ after.entityType = before.entityType
                   /\ after.observations
                          = before.observations \o Appended(last.arg, before.name)
        /\ ReadGraph(view).relations = ReadGraph(last.pre).relations

\* the values listed by the items of the batch that name `name`
Listed(deletions, name) ==
    UNION { Range(deletions[i].observations) :
              i \in { k \in 1..Len(deletions) : deletions[k].entityName = name } }

\* C12: delete_observations raises nothing; every entity reads back with its
\* previous observations minus every occurrence of the values listed for it,
\* the rest in their order; items naming no entity change nothing and the
\* other items are still applied.
C12_DeleteObservationsFilters ==
    Called("delete_observations") =>
        /\ last.err = NoError
        /\ { e.name : e \in ReadGraph(view).entities }
               = { e.name : e \in ReadGraph(last.pre).entities }
        /\ \A before \in ReadGraph(last.pre).entities :
               \E after \in ReadGraph(view).entities :
                   /\ after.name = before.name
                   /\ after.entityType = before.entityType
                   /\ after.observations
                          = SelectSeq(before.observations,
                                      LAMBDA o : o \notin Listed(last.arg, before.name))
        /\ ReadGraph(view).relations = ReadGraph(last.pre).relations

\* C13: delete_entities raises nothing; with names that name no entity it
\* leaves every entity and relation as it was, and applying it a second time to
\* the store it left changes nothing.
C13_DeleteEntitiesIdempotent ==
    Called("delete_entities") =>
        /\ last.err = NoError
        /\ Range(last.arg) \cap NamesOf(last.pre) = {} => view = last.pre
        /\ delete_entities_loop(view, last.arg) = view

C13_Witness ==
    /\ Called("delete_entities")
    /\ last.arg # <<>>
    /\ Range(last.arg) \cap NamesOf(last.pre) = {}
    /\ last.pre.entities # {}
    /\ last.pre.relations # {}

\* C14: delete_relations raises nothing and removes exactly the relations equal
\* to a supplied triple in from, to and relationType; a batch matching no
\* relation changes nothing; the entities are unchanged.
C14_DeleteRelationsExact ==
    Called("delete_relations") =>
        LET supplied == { RelationRow(last.arg[i]) : i \in 1..Len(last.arg) }
        IN  /\ last.err = NoError
            /\ view.relations = last.pre.relations \ supplied
            /\ supplied \cap last.pre.relations = {} => view = last.pre
            /\ view.entities = last.pre.entities

C14_Witness ==
    /\ Called("delete_relations")
    /\ Len(last.arg) = 2
    /\ RelationRow(last.arg[1]) \notin last.pre.relations
    /\ RelationRow(last.arg[2]) \in last.pre.relations
    /\ \E row \in view.relations :
           /\ row.from_entity = last.arg[1].from
           /\ row.to_entity = last.arg[1].to
           /\ row.relation_type # last.arg[1].relationType

\* C15: search_nodes with the empty query raises the validation error in every
\* state, tables created or not, without acquiring the connection, and leaves
\* the rows seen and the rows committed as they were.
C15_SearchEmptyQueryRejected ==
    (last.op = "search_nodes" /\ last.arg = <<>>) =>
        /\ last.err = Error("ValueError", <<>>)
        /\ last.ret = "None"
        /\ conn = last.conn
        /\ view = last.pre
        /\ disk = last.durable

C15_Witness ==
    /\ last.op = "search_nodes"
    /\ last.arg = <<>>
    /\ last.err.kind = "ValueError"
    /\ conn = "None"
    /\ disk.entities # {}
    /\ disk.relations # {}

\* C16: initialize raises nothing and leaves the committed entities and
\* relations exactly as they were before the call.
C16_InitializePreservesData ==
    last.op = "initialize" =>
        /\ last.err = NoError
        /\ schema
        /\ disk = last.durable

\* the operations that write and commit
Writers ==
    { "create_entities", "create_relations", "add_observations", "delete_entities",
      "delete_observations", "delete_relations" }

\* C17: when a call has returned or raised, no write is pending on the
\* connection (what it sees is what is committed), and a successful writer
\* started from the committed rows, so its commit made durable its own writes
\* only.
C17_UnitOfWorkEnds ==
    last # NoCall =>
        /\ ~in_transaction
        /\ view = disk
        /\ (last.op \in Writers /\ last.err = NoError) => last.pre = last.durable

\* C18: cleanup releases the connection without changing what read_graph
\* returns; a call made with no connection acquires one; there is one
\* connection slot, empty or open.
C18_CleanupTransparent ==
    /\ conn \in {"None", "open"}
    /\ last.op = "cleanup" =>
           /\ conn = "None"
           /\ last.err = NoError
           /\ ReadGraph(view) = ReadGraph(last.pre)
    /\ (schema /\ last.conn = "None" /\ last.op \in Writers \cup {"read_graph", "open_nodes"}) =>
           /\ conn = "open"
           /\ last.err.kind \in {"None", "EntityAlreadyExistsError", "EntityNotFoundError"}

\* the names occurring in the batch
BatchNames(observations) == { observations[i].entityName : i \in 1..Len(observations) }

\* C19: a successful add_observations returns a mapping whose keys are the
\* entity names of the batch and whose value for a name is everything the call
\* appended to that entity.
C19_AddObservationsReturn ==
    Succeeded("add_observations") =>
        /\ DOMAIN last.ret = BatchNames(last.arg)
        /\ \A n \in BatchNames(last.arg) : last.ret[n] = Appended(last.arg, n)

\* query occurs in text as a contiguous run of equal characters
Contains(text, query) ==
    \E i \in 1..(Len(text) - Len(query) + 1) : SubSeq(text, i, i + Len(query) - 1) = query

\* C20: search_nodes returns an entity exactly when the query is a literal
\* substring of its name, its entityType or its stored observations field.
C20_SearchLiteralSubstring ==
    (Succeeded("search_nodes") /\ last.arg # <<>>) =>
        { e.name : e \in last.ret.entities }
            = { row.name : row \in { r \in view.entities :
                                       \/ Contains(r.name, last.arg)
                                       \/ Contains(r.entity_type, last.arg)
                                       \/ Contains(r.observations, last.arg) } }

====
